---- MODULE Spec2Model ----
(***************************************************************************)
(* WinToTalk: a WebSocket listener that relays Say / Cancel messages to    *)
(* the SAPI5 speech engine (src/WinToTalk.py).                             *)
(*                                                                         *)
(* The model has one main thread (the asyncio receive loop, which also     *)
(* runs the signal handler), one background thread per dispatched Say, the *)
(* engine lock voice_lock, and the engine SpVoice seen through the calls   *)
(* it receives (log), its parameters (engine) and its queue of             *)
(* asynchronous utterances (playing).                                      *)
(*                                                                         *)
(* lower(), startswith() and the substring test "in" are computed on the   *)
(* characters of a string (Chars), not assumed.                            *)
(***************************************************************************)
EXTENDS Integers, Sequences, FiniteSets, TLC

(* ---------------------------------------------------------------------- *)
(* Bounds of the exploration                                              *)
(* ---------------------------------------------------------------------- *)
MaxMsgs == 2        \* messages delivered by the transport
MaxOffset == 230    \* largest distance of a swept Rate from the 200 wpm baseline

(* ---------------------------------------------------------------------- *)
(* Strings                                                                *)
(* ---------------------------------------------------------------------- *)
LowerChar(c) ==
    CASE c = "A" -> "a" [] c = "B" -> "b" [] c = "C" -> "c" [] c = "D" -> "d"
      [] c = "E" -> "e" [] c = "F" -> "f" [] c = "G" -> "g" [] c = "H" -> "h"
      [] c = "I" -> "i" [] c = "J" -> "j" [] c = "K" -> "k" [] c = "L" -> "l"
      [] c = "M" -> "m" [] c = "N" -> "n" [] c = "O" -> "o" [] c = "P" -> "p"
      [] c = "Q" -> "q" [] c = "R" -> "r" [] c = "S" -> "s" [] c = "T" -> "t"
      [] c = "U" -> "u" [] c = "V" -> "v" [] c = "W" -> "w" [] c = "X" -> "x"
      [] c = "Y" -> "y" [] c = "Z" -> "z" [] OTHER -> c

\* str.lower()
Lower(s) == [i \in 1..Len(s) |-> LowerChar(s[i])]

\* str.startswith(p)
StartsWith(s, p) ==
    /\ Len(p) <= Len(s)
    /\ \A i \in 1..Len(p) : s[i] = p[i]

\* "p in s" for strings
Contains(s, p) ==
    \E k \in 0..(Len(s) - Len(p)) : \A i \in 1..Len(p) : s[k + i] = p[i]

(* ---------------------------------------------------------------------- *)
(* Voice configuration (src/WinToTalk.py:23-32)                           *)
(* ---------------------------------------------------------------------- *)
EN_NEUTRAL == "Microsoft Catherine"
EN_FEMALE == "Microsoft Susan"
EN_MALE == "Microsoft Richard"
DE_NEUTRAL == "Microsoft Hedda Desktop"
DE_FEMALE == "Microsoft Katja"
DE_MALE == "Microsoft Karsten"

DEFAULT_RATE == 300
DEFAULT_VOLUME == 100

VOICE_MAP ==
    [c \in {"EN_NEUTRAL", "EN_FEMALE", "EN_MALE", "DE_NEUTRAL", "DE_FEMALE", "DE_MALE"} |->
        CASE c = "EN_NEUTRAL" -> EN_NEUTRAL
          [] c = "EN_FEMALE" -> EN_FEMALE
          [] c = "EN_MALE" -> EN_MALE
          [] c = "DE_NEUTRAL" -> DE_NEUTRAL
          [] c = "DE_FEMALE" -> DE_FEMALE
          [] c = "DE_MALE" -> DE_MALE]

(* ---------------------------------------------------------------------- *)
(* JSON values: t is the JSON type ("absent" when the key is missing),    *)
(* s the value of a string, n the value of a number.                      *)
(* ---------------------------------------------------------------------- *)
Absent == [t |-> "absent", s |-> "", n |-> 0]
Str(string) == [t |-> "str", s |-> string, n |-> 0]
Num(k) == [t |-> "num", s |-> "", n |-> k]
Obj == [t |-> "obj", s |-> "", n |-> 0]
\* an integer too large for a float: json.loads keeps it as an int of any
\* size, and int / int raises OverflowError when the quotient exceeds the
\* range of a float (about 1.8e308); n is its sign
Big(sign) == [t |-> "big", s |-> "", n |-> sign]

\* dict.get(key, default)
Get(v, default) == IF v.t = "absent" THEN default ELSE v

\* the characters of the strings the model uses
Chars(string) ==
    CASE string = "" -> <<>>
      [] string = "English" -> <<"E", "n", "g", "l", "i", "s", "h">>
      [] string = "German" -> <<"G", "e", "r", "m", "a", "n">>
      [] string = "None" -> <<"N", "o", "n", "e">>
      [] string = "Male" -> <<"M", "a", "l", "e">>
      [] string = "Female" -> <<"F", "e", "m", "a", "l", "e">>
      [] string = "male" -> <<"m", "a", "l", "e">>
      [] string = "female" -> <<"f", "e", "m", "a", "l", "e">>
      [] string = "german" -> <<"g", "e", "r", "m", "a", "n">>
      [] string = "Hello" -> <<"H", "e", "l", "l", "o">>
      [] string = "Hallo" -> <<"H", "a", "l", "l", "o">>
      [] string = "Say" -> <<"S", "a", "y">>
      [] string = "say" -> <<"s", "a", "y">>
      [] string = "Cancel" -> <<"C", "a", "n", "c", "e", "l">>
      [] string = "cancel" -> <<"c", "a", "n", "c", "e", "l">>
      [] string = "Other" -> <<"O", "t", "h", "e", "r">>
      [] string = "fast" -> <<"f", "a", "s", "t">>
      [] string = "GERMAN" -> <<"G", "E", "R", "M", "A", "N">>
      [] string = "Germany" -> <<"G", "e", "r", "m", "a", "n", "y">>
      [] string = "Deutsch" -> <<"D", "e", "u", "t", "s", "c", "h">>
      [] string = "Ger" -> <<"G", "e", "r">>
      [] string = "MALE" -> <<"M", "A", "L", "E">>
      [] string = "FEMALE" -> <<"F", "E", "M", "A", "L", "E">>
      [] string = "Males" -> <<"M", "a", "l", "e", "s">>
      [] string = "Microsoft Catherine" -> <<"M", "i", "c", "r", "o", "s", "o", "f", "t", " ", "C", "a", "t", "h", "e", "r", "i", "n", "e">>
      [] string = "Microsoft Susan" -> <<"M", "i", "c", "r", "o", "s", "o", "f", "t", " ", "S", "u", "s", "a", "n">>
      [] string = "Microsoft Richard" -> <<"M", "i", "c", "r", "o", "s", "o", "f", "t", " ", "R", "i", "c", "h", "a", "r", "d">>
      [] string = "Microsoft Hedda Desktop" -> <<"M", "i", "c", "r", "o", "s", "o", "f", "t", " ", "H", "e", "d", "d", "a", " ", "D", "e", "s", "k", "t", "o", "p">>
      [] string = "Microsoft Katja" -> <<"M", "i", "c", "r", "o", "s", "o", "f", "t", " ", "K", "a", "t", "j", "a">>
      [] string = "Microsoft Karsten" -> <<"M", "i", "c", "r", "o", "s", "o", "f", "t", " ", "K", "a", "r", "s", "t", "e", "n">>
      [] string = "Microsoft Catherine - English" -> <<"M", "i", "c", "r", "o", "s", "o", "f", "t", " ", "C", "a", "t", "h", "e", "r", "i", "n", "e", " ", "-", " ", "E", "n", "g", "l", "i", "s", "h">>
      [] string = "Microsoft Susan - English" -> <<"M", "i", "c", "r", "o", "s", "o", "f", "t", " ", "S", "u", "s", "a", "n", " ", "-", " ", "E", "n", "g", "l", "i", "s", "h">>
      [] string = "Microsoft Richard - English" -> <<"M", "i", "c", "r", "o", "s", "o", "f", "t", " ", "R", "i", "c", "h", "a", "r", "d", " ", "-", " ", "E", "n", "g", "l", "i", "s", "h">>
      [] string = "Microsoft Hedda Desktop - German" -> <<"M", "i", "c", "r", "o", "s", "o", "f", "t", " ", "H", "e", "d", "d", "a", " ", "D", "e", "s", "k", "t", "o", "p", " ", "-", " ", "G", "e", "r", "m", "a", "n">>
      [] string = "Microsoft Katja - German" -> <<"M", "i", "c", "r", "o", "s", "o", "f", "t", " ", "K", "a", "t", "j", "a", " ", "-", " ", "G", "e", "r", "m", "a", "n">>
      [] string = "Microsoft Karsten - German" -> <<"M", "i", "c", "r", "o", "s", "o", "f", "t", " ", "K", "a", "r", "s", "t", "e", "n", " ", "-", " ", "G", "e", "r", "m", "a", "n">>

(* ---------------------------------------------------------------------- *)
(* rate_to_sapi (src/WinToTalk.py:41-46)                                  *)
(* ---------------------------------------------------------------------- *)
\* int(x / 20): Python's int() truncates toward zero
TruncDiv(a, b) == IF a >= 0 THEN a \div b ELSE -((-a) \div b)

Max(a, b) == IF a >= b THEN a ELSE b
Min(a, b) == IF a <= b THEN a ELSE b

rate_to_sapi(rate_wpm) ==
    LET baseline == 200
        diff == rate_wpm - baseline
        sapi_rate == TruncDiv(diff, 20)
    IN  Max(-10, Min(10, sapi_rate))

(* ---------------------------------------------------------------------- *)
(* select_voice, the part that picks the constant                          *)
(* (src/WinToTalk.py:59-76)                                               *)
(* ---------------------------------------------------------------------- *)
\* Chosen without .lower(): the comparisons are case-sensitive
Chosen_CaseSensitive(language, gender) ==
    IF StartsWith(language, Chars("german"))
    THEN IF gender = Chars("male") THEN "DE_MALE"
         ELSE IF gender = Chars("female") THEN "DE_FEMALE"
         ELSE "DE_NEUTRAL"
    ELSE IF gender = Chars("male") THEN "EN_MALE"
         ELSE IF gender = Chars("female") THEN "EN_FEMALE"
         ELSE "EN_NEUTRAL"

\* language and gender are the characters of the two strings
Chosen(language, gender) ==
    IF StartsWith(Lower(language), Chars("german"))
    THEN IF Lower(gender) = Chars("male") THEN "DE_MALE"
         ELSE IF Lower(gender) = Chars("female") THEN "DE_FEMALE"
         ELSE "DE_NEUTRAL"
    ELSE IF Lower(gender) = Chars("male") THEN "EN_MALE"
         ELSE IF Lower(gender) = Chars("female") THEN "EN_FEMALE"
         ELSE "EN_NEUTRAL"

(* ---------------------------------------------------------------------- *)
(* Inbound messages                                                       *)
(*   shape: "text" is a frame json.loads rejects, "array" is JSON that is *)
(*   not an object, "object" is a JSON object with the listed keys.       *)
(*   Voice is Obj when the key holds an object; Name is then its "Name".  *)
(* ---------------------------------------------------------------------- *)
Message(shape, type, payload, language, voice, name, rate) ==
    [shape |-> shape, Type |-> type, Payload |-> payload, Language |-> language,
     Voice |-> voice, Name |-> name, Rate |-> rate]

mGarbage == Message("text", Absent, Absent, Absent, Absent, Absent, Absent)
mArray == Message("array", Absent, Absent, Absent, Absent, Absent, Absent)
mEmpty == Message("object", Absent, Absent, Absent, Absent, Absent, Absent)
mTypeNum == Message("object", Num(5), Absent, Absent, Absent, Absent, Absent)
mOther == Message("object", Str("Other"), Absent, Absent, Absent, Absent, Absent)
mCancel == Message("object", Str("Cancel"), Absent, Absent, Absent, Absent, Absent)
\* Scenario A: {"Type":"Say","Payload":"Hello","Language":"English","Voice":{"Name":"Male"},"Rate":300}
mSayA == Message("object", Str("Say"), Str("Hello"), Str("English"), Obj, Str("Male"), Num(300))
\* Scenario B: German / Female, no Rate
mSayB == Message("object", Str("say"), Str("Hallo"), Str("German"), Obj, Str("Female"), Absent)
\* {"Type":"say"}
mSayBare == Message("object", Str("say"), Absent, Absent, Absent, Absent, Absent)
\* a Say whose Rate is the string "fast"
mSayRateStr == Message("object", Str("Say"), Str("Hello"), Absent, Absent, Absent, Str("fast"))
\* a Say whose Voice is the string "Male" instead of an object
mSayVoiceStr == Message("object", Str("Say"), Str("Hello"), Absent, Str("Male"), Absent, Absent)
\* a Say whose Rate is an integer of 400 digits
mSayRateHuge == Message("object", Str("Say"), Str("Hello"), Absent, Absent, Absent, Big(1))
\* a Say whose Language is the number 5
mSayLangNum == Message("object", Str("Say"), Str("Hello"), Num(5), Absent, Absent, Absent)

Messages ==
    {mGarbage, mArray, mEmpty, mTypeNum, mOther, mCancel,
     mSayA, mSayB, mSayBare, mSayRateStr, mSayVoiceStr, mSayLangNum}

\* The voices the engine enumerates, by description, in enumeration order.
AllInstalled ==
    <<"Microsoft Catherine - English", "Microsoft Susan - English", "Microsoft Richard - English",
      "Microsoft Hedda Desktop - German", "Microsoft Katja - German", "Microsoft Karsten - German">>

EnglishOnly ==
    <<"Microsoft Catherine - English", "Microsoft Susan - English", "Microsoft Richard - English">>

InstalledOptions == {AllInstalled, EnglishOnly}

\* {"Type":"Say","Payload":"Hello","Language":language,"Voice":{"Name":gender},"Rate":rate}
SayWith(language, gender, rate) ==
    Message("object", Str("Say"), Str("Hello"), Str(language), Obj, Str(gender), Num(rate))

\* Rate values: every integer within MaxOffset of the baseline, and extremes
RateInputs == {-10000, 10000} \cup ((200 - MaxOffset)..(200 + MaxOffset))

\* Language and Voice.Name values, in several spellings
LanguageInputs == {"English", "German", "german", "GERMAN", "Germany", "Ger", "Deutsch", ""}
GenderInputs == {"Male", "male", "MALE", "Female", "female", "FEMALE", "Males", "None", ""}

RateSays == {SayWith("English", "None", w) : w \in RateInputs} \cup {mSayRateHuge}
VoiceSays == {SayWith(l, g, DEFAULT_RATE) : l \in LanguageInputs, g \in GenderInputs}

(* ---------------------------------------------------------------------- *)
(* State                                                                  *)
(* ---------------------------------------------------------------------- *)
VARIABLES
    mpc,        \* position of the main thread in websocket_loop / process_message / speak
    ctx,        \* "say" or "cancel": who called cancel_speech on the receive path
    req,        \* arguments of the speak() call in progress
    nmsgs,      \* number of messages received so far
    lock,       \* voice_lock: Free, or who acquired it
    tpc,        \* position of each background thread in run()
    treq,       \* arguments captured by each background thread's closure
    current_speak_thread,
    engine,     \* SpVoice.Volume, SpVoice.Rate, SpVoice.Voice
    installed,  \* SpVoice.GetVoices()
    playing,    \* utterances queued in the engine and not yet finished or purged
    log,        \* every call the engine has received, in order
    sig         \* position of the signal handler shutdown()

vars == <<mpc, ctx, req, nmsgs, lock, tpc, treq,
          current_speak_thread, engine, installed, playing, log, sig>>

Free == 0
ByMain == -1        \* cancel_speech called from process_message
ByShutdown == -2    \* cancel_speech called from shutdown

Threads == 1..MaxMsgs

NoReq == [text |-> Absent, language |-> Absent, gender |-> Absent,
          rate |-> Absent, volume |-> 0]

\* threads that terminated with an unhandled exception
Raised == {"raised_TypeError", "raised_AttributeError", "raised_COMError",
           "raised_OverflowError"}

Call(op, who, msg, n, s) == [op |-> op, who |-> who, msg |-> msg, n |-> n, s |-> s]

Stopped == sig \in {"exited", "crashed"}

\* the main thread executes its own code (no signal handler is on its stack)
MainRuns == sig \in {"none", "aborted"}

\* what an engine call may do: return, raise (a COM error), or not return
Outcomes == {"ok", "error", "hang"}

Init ==
    /\ mpc = "connect"
    /\ ctx = "none"
    /\ req = NoReq
    /\ nmsgs = 0
    /\ lock = Free
    /\ tpc = [t \in Threads |-> "none"]
    /\ treq = [t \in Threads |-> NoReq]
    /\ current_speak_thread = 0
    /\ installed \in InstalledOptions
    /\ engine = [volume |-> 100, rate |-> 0, voice |-> installed[1]]
    /\ playing = <<>>
    /\ log = <<>>
    /\ sig = "none"

(* ---------------------------------------------------------------------- *)
(* The engine (SpVoice, src/WinToTalk.py:37) as the program uses it       *)
(* ---------------------------------------------------------------------- *)
\* EnginePurge with the flag of ThreadSpeak, SpVoice.Speak("", 1): the empty
\* text is queued behind what is playing and nothing is dropped
EnginePurge_Queues(who, msg) ==
    /\ log' = Append(log, Call("speak", who, msg, 1, ""))
    /\ playing' = Append(playing, 0)
    /\ UNCHANGED engine

\* SpVoice.Speak("", 3): stop the audio and drop what is queued
EnginePurge(who, msg) ==
    /\ log' = Append(log, Call("purge", who, msg, 3, ""))
    /\ playing' = <<>>
    /\ UNCHANGED engine

\* SpVoice.Speak(text, 1): queue the utterance and return
EngineSpeak(t, text) ==
    /\ log' = Append(log, Call("speak", "thread", t, 1, text))
    /\ playing' = Append(playing, t)
    /\ UNCHANGED engine

\* the utterance being played finishes by itself
UtteranceCompletes ==
    /\ ~Stopped
    /\ playing # <<>>
    /\ playing' = Tail(playing)
    /\ UNCHANGED <<mpc, ctx, req, nmsgs, lock, tpc, treq,
                   current_speak_thread, engine, installed, log, sig>>

(* ---------------------------------------------------------------------- *)
(* process_message (src/WinToTalk.py:115-143)                             *)
(* ---------------------------------------------------------------------- *)
\* Dispatch with a missing Type taken for "say"
Dispatch_MissingTypeIsSay(m) ==
    IF m.shape = "text" THEN "error"
    ELSE IF m.shape = "array" THEN "error"
    ELSE LET type == Get(m.Type, Str("say"))
         IN  IF type.t # "str" THEN "error"
             ELSE IF Lower(Chars(type.s)) = Chars("say")
                  THEN IF m.Voice.t \in {"absent", "obj"}
                       THEN "say"
                       ELSE "error"
                  ELSE IF Lower(Chars(type.s)) = Chars("cancel") THEN "cancel"
                  ELSE "ignore"

\* what lines 117-124 and 138 decide: "error" when one of them raises
Dispatch(m) ==
    IF m.shape = "text" THEN "error"                     \* json.loads raises
    ELSE IF m.shape = "array" THEN "error"               \* list has no .get
    ELSE LET type == Get(m.Type, Str(""))
         IN  IF type.t # "str" THEN "error"              \* no .lower()
             ELSE IF Lower(Chars(type.s)) = Chars("say")
                  THEN IF m.Voice.t \in {"absent", "obj"}
                       THEN "say"
                       ELSE "error"                      \* voice_info has no .get
                  ELSE IF Lower(Chars(type.s)) = Chars("cancel") THEN "cancel"
                  ELSE "ignore"

\* the arguments of speak(payload, language, gender, rate), lines 121-125, 136
Request(m) ==
    [text |-> Get(m.Payload, Str("")),
     language |-> Get(m.Language, Str("English")),
     gender |-> IF m.Voice.t = "obj" THEN Get(m.Name, Str("None")) ELSE Str("None"),
     rate |-> Get(m.Rate, Num(DEFAULT_RATE)),
     volume |-> DEFAULT_VOLUME]

\* process_message returns: its locals and those of speak are gone
Return ==
    /\ ctx' = "none"
    /\ req' = NoReq

\* MessageError without the except clause: the exception reaches websocket_loop
MessageError_Propagates ==
    mpc' = "sleep"

\* except Exception (lines 142-143): log, return to the receive loop
MessageError ==
    mpc' = "recv"

\* except Exception of websocket_loop (lines 154-156): log, then sleep
WsError ==
    mpc' = "sleep"

(* ---------------------------------------------------------------------- *)
(* websocket_loop (src/WinToTalk.py:146-156)                              *)
(* ---------------------------------------------------------------------- *)
Connect ==
    /\ MainRuns
    /\ mpc = "connect"
    /\ mpc' = "recv"
    /\ UNCHANGED <<ctx, req, nmsgs, lock, tpc, treq,
                   current_speak_thread, engine, installed, playing, log, sig>>

ConnectFails ==
    /\ MainRuns
    /\ mpc = "connect"
    /\ WsError
    /\ UNCHANGED <<ctx, req, nmsgs, lock, tpc, treq,
                   current_speak_thread, engine, installed, playing, log, sig>>

\* ws.recv() raises: the connection was closed or reset
RecvFails ==
    /\ MainRuns
    /\ mpc = "recv"
    /\ WsError
    /\ UNCHANGED <<ctx, req, nmsgs, lock, tpc, treq,
                   current_speak_thread, engine, installed, playing, log, sig>>

\* Sleep leaving the while True loop instead of starting its next round
Sleep_GivesUp ==
    /\ MainRuns
    /\ mpc = "sleep"
    /\ mpc' = "gave_up"
    /\ UNCHANGED <<ctx, req, nmsgs, lock, tpc, treq,
                   current_speak_thread, engine, installed, playing, log, sig>>

\* await asyncio.sleep(1), then the next round of while True
Sleep ==
    /\ MainRuns
    /\ mpc = "sleep"
    /\ mpc' = "connect"
    /\ UNCHANGED <<ctx, req, nmsgs, lock, tpc, treq,
                   current_speak_thread, engine, installed, playing, log, sig>>

\* msg = await ws.recv(); process_message(msg) up to its first engine call
Receive(m) ==
    /\ MainRuns
    /\ mpc = "recv"
    /\ nmsgs < MaxMsgs
    /\ nmsgs' = nmsgs + 1
    /\ CASE Dispatch(m) = "error" ->
              /\ MessageError
              /\ UNCHANGED <<ctx, req>>
         [] Dispatch(m) = "ignore" ->
              /\ mpc' = "recv"
              /\ UNCHANGED <<ctx, req>>
         [] Dispatch(m) = "cancel" ->
              /\ mpc' = "cs_acquire"
              /\ ctx' = "cancel"
              /\ UNCHANGED req
         [] Dispatch(m) = "say" ->
              /\ mpc' = "cs_acquire"
              /\ ctx' = "say"
              /\ req' = Request(m)
    /\ UNCHANGED <<lock, tpc, treq, current_speak_thread,
                   engine, installed, playing, log, sig>>

(* ---------------------------------------------------------------------- *)
(* cancel_speech on the receive path (src/WinToTalk.py:106-109, called    *)
(* at line 100 by speak and at line 140 by process_message)               *)
(* ---------------------------------------------------------------------- *)
\* CancelAcquire with acquire(blocking=False): when the lock is taken, the purge
\* is skipped and the handling goes on
CancelAcquire_NonBlocking ==
    /\ MainRuns
    /\ mpc = "cs_acquire"
    /\ IF lock = Free
       THEN /\ lock' = ByMain
            /\ mpc' = "cs_purge"
            /\ UNCHANGED <<ctx, req>>
       ELSE /\ lock' = lock
            /\ IF ctx = "say"
               THEN mpc' = "start" /\ UNCHANGED <<ctx, req>>
               ELSE mpc' = "recv" /\ Return
    /\ UNCHANGED <<nmsgs, tpc, treq,
                   current_speak_thread, engine, installed, playing, log, sig>>

\* with voice_lock: blocks until the lock is free
CancelAcquire ==
    /\ MainRuns
    /\ mpc = "cs_acquire"
    /\ lock = Free
    /\ lock' = ByMain
    /\ mpc' = "cs_purge"
    /\ UNCHANGED <<ctx, req, nmsgs, tpc, treq,
                   current_speak_thread, engine, installed, playing, log, sig>>

\* CancelPurge that purges only when an utterance is believed active
CancelPurge_OnlyWhenSpeaking(o) ==
    /\ MainRuns
    /\ mpc = "cs_purge"
    /\ CASE o = "ok" ->
              /\ IF playing # <<>>
                 THEN EnginePurge(ctx, nmsgs)
                 ELSE UNCHANGED <<engine, playing, log>>
              /\ lock' = Free
              /\ IF ctx = "say"
                 THEN mpc' = "start" /\ UNCHANGED <<ctx, req>>
                 ELSE mpc' = "recv" /\ Return
         [] o = "error" ->
              /\ lock' = Free
              /\ MessageError
              /\ Return
              /\ UNCHANGED <<engine, playing, log>>
         [] o = "hang" ->
              /\ mpc' = "hung"
              /\ UNCHANGED <<ctx, req, lock, engine, playing, log>>
    /\ UNCHANGED <<nmsgs, tpc, treq,
                   current_speak_thread, installed, sig>>

\* SpVoice.Speak("", 3) and the end of the with block
CancelPurge(o) ==
    /\ MainRuns
    /\ mpc = "cs_purge"
    /\ CASE o = "ok" ->
              /\ EnginePurge(ctx, nmsgs)
              /\ lock' = Free
              /\ IF ctx = "say"
                 THEN mpc' = "start" /\ UNCHANGED <<ctx, req>>
                 ELSE mpc' = "recv" /\ Return
         [] o = "error" ->
              /\ lock' = Free
              /\ MessageError
              /\ Return
              /\ UNCHANGED <<engine, playing, log>>
         [] o = "hang" ->
              /\ mpc' = "hung"
              /\ UNCHANGED <<ctx, req, lock, engine, playing, log>>
    /\ UNCHANGED <<nmsgs, tpc, treq,
                   current_speak_thread, installed, sig>>

(* ---------------------------------------------------------------------- *)
(* speak (src/WinToTalk.py:88-103)                                        *)
(* ---------------------------------------------------------------------- *)
\* lines 102-103: create and start the thread of this Say
StartThread ==
    /\ MainRuns
    /\ mpc = "start"
    /\ current_speak_thread' = nmsgs
    /\ tpc' = [tpc EXCEPT ![nmsgs] = "acquire"]
    /\ treq' = [treq EXCEPT ![nmsgs] = req]
    /\ mpc' = "recv"
    /\ Return
    /\ UNCHANGED <<nmsgs, lock,
                   engine, installed, playing, log, sig>>

\* ThreadRaise with acquire() / release() in place of the with block: the
\* exception skips the release
ThreadRaise_KeepsLock(t, exc) ==
    /\ tpc' = [tpc EXCEPT ![t] = exc]
    /\ lock' = lock

\* an exception leaves run(): the with block releases the lock and the
\* thread ends with an unhandled exception
ThreadRaise(t, exc) ==
    /\ tpc' = [tpc EXCEPT ![t] = exc]
    /\ lock' = Free

\* ThreadAcquire without waiting: run() enters its block whoever holds the lock
ThreadAcquire_Unguarded(t) ==
    /\ ~Stopped
    /\ tpc[t] = "acquire"
    /\ lock' = t
    /\ tpc' = [tpc EXCEPT ![t] = "volume"]
    /\ UNCHANGED <<mpc, ctx, req, nmsgs, treq,
                   current_speak_thread, engine, installed, playing, log, sig>>

\* with voice_lock: (line 93)
ThreadAcquire(t) ==
    /\ ~Stopped
    /\ tpc[t] = "acquire"
    /\ lock = Free
    /\ lock' = t
    /\ tpc' = [tpc EXCEPT ![t] = "volume"]
    /\ UNCHANGED <<mpc, ctx, req, nmsgs, treq,
                   current_speak_thread, engine, installed, playing, log, sig>>

\* SpVoice.Volume = max(0, min(100, volume)) (line 94)
ThreadVolume(t, o) ==
    /\ ~Stopped
    /\ tpc[t] = "volume"
    /\ LET v == Max(0, Min(100, treq[t].volume))
       IN  CASE o = "ok" ->
                  /\ engine' = [engine EXCEPT !.volume = v]
                  /\ log' = Append(log, Call("volume", "thread", t, v, ""))
                  /\ tpc' = [tpc EXCEPT ![t] = "rate"]
                  /\ UNCHANGED lock
             [] o = "error" ->
                  /\ ThreadRaise(t, "raised_COMError")
                  /\ UNCHANGED <<engine, log>>
             [] o = "hang" ->
                  /\ tpc' = [tpc EXCEPT ![t] = "hung"]
                  /\ UNCHANGED <<lock, engine, log>>
    /\ UNCHANGED <<mpc, ctx, req, nmsgs, treq,
                   current_speak_thread, installed, playing, sig>>

\* SpVoice.Rate = rate_to_sapi(rate) (line 95)
ThreadRate(t, o) ==
    /\ ~Stopped
    /\ tpc[t] = "rate"
    /\ IF treq[t].rate.t = "big"
       THEN \* diff / 20 raises OverflowError before the engine is called
            /\ o = "ok"
            /\ ThreadRaise(t, "raised_OverflowError")
            /\ UNCHANGED <<engine, log>>
       ELSE IF treq[t].rate.t # "num"
       THEN \* rate_wpm - baseline raises TypeError before the engine is called
            /\ o = "ok"
            /\ ThreadRaise(t, "raised_TypeError")
            /\ UNCHANGED <<engine, log>>
       ELSE /\ LET r == rate_to_sapi(treq[t].rate.n)
               IN  CASE o = "ok" ->
                          /\ engine' = [engine EXCEPT !.rate = r]
                          /\ log' = Append(log, Call("rate", "thread", t, r, ""))
                          /\ tpc' = [tpc EXCEPT ![t] = "voice"]
                          /\ UNCHANGED lock
                     [] o = "error" ->
                          /\ ThreadRaise(t, "raised_COMError")
                          /\ UNCHANGED <<engine, log>>
                     [] o = "hang" ->
                          /\ tpc' = [tpc EXCEPT ![t] = "hung"]
                          /\ UNCHANGED <<lock, engine, log>>
    /\ UNCHANGED <<mpc, ctx, req, nmsgs, treq,
                   current_speak_thread, installed, playing, sig>>

\* the indexes of the enumerated voices whose description contains the name
\* (line 79)
Matching(voice_name) ==
    {i \in 1..Len(installed) :
        Contains(Lower(Chars(installed[i])), Lower(Chars(voice_name)))}

FirstOf(S) == CHOOSE i \in S : \A j \in S : i <= j

\* what select_voice(language, gender) returns for two strings (lines 59-85):
\* the constant chosen, and the name reported for it
select_voice(language, gender) ==
    LET chosen == Chosen(Chars(language), Chars(gender))
        voice_name == VOICE_MAP[chosen]
    IN  IF Matching(voice_name) # {}
        THEN <<chosen, voice_name>>
        ELSE <<chosen, "Default system voice">>

\* ThreadVoice that falls back by assigning the first enumerated voice when
\* the target is not found
ThreadVoice_ResetsDefault(t, o) ==
    /\ ~Stopped
    /\ tpc[t] = "voice"
    /\ IF treq[t].language.t # "str" \/ treq[t].gender.t # "str"
       THEN \* language.lower() or gender.lower() raises AttributeError
            /\ o = "ok"
            /\ ThreadRaise(t, "raised_AttributeError")
            /\ UNCHANGED <<engine, log>>
       ELSE /\ LET chosen == Chosen(Chars(treq[t].language.s), Chars(treq[t].gender.s))
                   voice_name == VOICE_MAP[chosen]
                   found == Matching(voice_name)
                   enum == Call("getvoices", "thread", t, 0, "")
               IN  CASE o = "ok" ->
                          /\ IF found # {}
                             THEN /\ engine' = [engine EXCEPT !.voice = installed[FirstOf(found)]]
                                  /\ log' = log \o <<enum, Call("voice", "thread", t, 0,
                                                                installed[FirstOf(found)])>>
                             ELSE /\ engine' = [engine EXCEPT !.voice = installed[1]]
                                  /\ log' = Append(log, enum)
                          /\ tpc' = [tpc EXCEPT ![t] = "speak"]
                          /\ UNCHANGED lock
                     [] o = "error" ->
                          /\ ThreadRaise(t, "raised_COMError")
                          /\ UNCHANGED <<engine, log>>
                     [] o = "hang" ->
                          /\ tpc' = [tpc EXCEPT ![t] = "hung"]
                          /\ UNCHANGED <<lock, engine, log>>
    /\ UNCHANGED <<mpc, ctx, req, nmsgs, treq,
                   current_speak_thread, installed, playing, sig>>

\* select_voice(language, gender) (line 96, lines 59-85)
ThreadVoice(t, o) ==
    /\ ~Stopped
    /\ tpc[t] = "voice"
    /\ IF treq[t].language.t # "str" \/ treq[t].gender.t # "str"
       THEN \* language.lower() or gender.lower() raises AttributeError
            /\ o = "ok"
            /\ ThreadRaise(t, "raised_AttributeError")
            /\ UNCHANGED <<engine, log>>
       ELSE /\ LET chosen == Chosen(Chars(treq[t].language.s), Chars(treq[t].gender.s))
                   voice_name == VOICE_MAP[chosen]
                   found == Matching(voice_name)
                   enum == Call("getvoices", "thread", t, 0, "")
               IN  CASE o = "ok" ->
                          /\ IF found # {}
                             THEN /\ engine' = [engine EXCEPT !.voice = installed[FirstOf(found)]]
                                  /\ log' = log \o <<enum, Call("voice", "thread", t, 0,
                                                                installed[FirstOf(found)])>>
                             ELSE /\ engine' = engine
                                  /\ log' = Append(log, enum)
                          /\ tpc' = [tpc EXCEPT ![t] = "speak"]
                          /\ UNCHANGED lock
                     [] o = "error" ->
                          /\ ThreadRaise(t, "raised_COMError")
                          /\ UNCHANGED <<engine, log>>
                     [] o = "hang" ->
                          /\ tpc' = [tpc EXCEPT ![t] = "hung"]
                          /\ UNCHANGED <<lock, engine, log>>
    /\ UNCHANGED <<mpc, ctx, req, nmsgs, treq,
                   current_speak_thread, installed, playing, sig>>

\* SpVoice.Speak(text, 1) and the end of the with block (line 97)
ThreadSpeak(t, o) ==
    /\ ~Stopped
    /\ tpc[t] = "speak"
    /\ CASE o = "ok" ->
              /\ EngineSpeak(t, treq[t].text.s)
              /\ lock' = Free
              /\ tpc' = [tpc EXCEPT ![t] = "done"]
         [] o = "error" ->
              /\ ThreadRaise(t, "raised_COMError")
              /\ UNCHANGED <<engine, playing, log>>
         [] o = "hang" ->
              /\ tpc' = [tpc EXCEPT ![t] = "hung"]
              /\ UNCHANGED <<lock, engine, playing, log>>
    /\ UNCHANGED <<mpc, ctx, req, nmsgs, treq,
                   current_speak_thread, installed, sig>>

(* ---------------------------------------------------------------------- *)
(* shutdown, the SIGINT / SIGTERM handler (src/WinToTalk.py:162-165,      *)
(* registered at lines 172-173). Python runs it on the main thread,       *)
(* between two of the main thread's own instructions.                     *)
(* ---------------------------------------------------------------------- *)
Signal ==
    /\ sig = "none"
    /\ mpc # "hung"                               \* the main thread is inside the engine
    /\ ~(mpc = "cs_acquire" /\ lock # Free)       \* the main thread is blocked on the lock
    /\ sig' = "sd_acquire"
    /\ UNCHANGED <<mpc, ctx, req, nmsgs, lock, tpc, treq,
                   current_speak_thread, engine, installed, playing, log>>

\* cancel_speech(): with voice_lock
ShutdownAcquire ==
    /\ sig = "sd_acquire"
    /\ lock = Free
    /\ lock' = ByShutdown
    /\ sig' = "sd_purge"
    /\ UNCHANGED <<mpc, ctx, req, nmsgs, tpc, treq,
                   current_speak_thread, engine, installed, playing, log>>

\* where an exception raised by the handler goes: into the code the main
\* thread was executing when the signal arrived
ShutdownRaise ==
    IF mpc \in {"cs_acquire", "start"}
    THEN \* inside the try of process_message: except Exception catches it
         /\ sig' = "aborted"
         /\ MessageError
         /\ Return
    ELSE IF mpc \in {"connect", "recv"}
    THEN \* inside the try of websocket_loop, or inside the event loop
         \/ /\ sig' = "aborted"
            /\ WsError
            /\ UNCHANGED <<ctx, req>>
         \/ /\ sig' = "crashed"
            /\ UNCHANGED <<mpc, ctx, req>>
    ELSE \* in the except clause of websocket_loop: nothing catches it
         /\ sig' = "crashed"
         /\ UNCHANGED <<mpc, ctx, req>>

\* cancel_speech(): SpVoice.Speak("", 3) and the end of the with block
ShutdownPurge(o) ==
    /\ sig = "sd_purge"
    /\ CASE o = "ok" ->
              /\ EnginePurge("shutdown", 0)
              /\ lock' = Free
              /\ sig' = "sd_exit"
              /\ UNCHANGED <<mpc, ctx, req>>
         [] o = "error" ->
              /\ lock' = Free
              /\ ShutdownRaise
              /\ UNCHANGED <<engine, playing, log>>
         [] o = "hang" ->
              /\ sig' = "sd_hung"
              /\ UNCHANGED <<mpc, ctx, req, lock, engine, playing, log>>
    /\ UNCHANGED <<nmsgs, tpc, treq,
                   current_speak_thread, installed>>

\* sys.exit(0): the process ends, the daemon threads with it
ShutdownExit ==
    /\ sig = "sd_exit"
    /\ sig' = "exited"
    /\ UNCHANGED <<mpc, ctx, req, nmsgs, lock, tpc, treq,
                   current_speak_thread, engine, installed, playing, log>>

(* ---------------------------------------------------------------------- *)
(* Specifications                                                         *)
(* ---------------------------------------------------------------------- *)
\* the receive path: websocket_loop, process_message, speak, cancel_speech
MainStep(O, M) ==
    \/ Connect
    \/ \E m \in M : Receive(m)
    \/ CancelAcquire
    \/ \E o \in O : CancelPurge(o)
    \/ StartThread

\* the background threads
ThreadStep(O) ==
    \/ \E t \in Threads : ThreadAcquire(t)
    \/ \E t \in Threads, o \in O : ThreadVolume(t, o)
    \/ \E t \in Threads, o \in O : ThreadRate(t, o)
    \/ \E t \in Threads, o \in O : ThreadVoice(t, o)
    \/ \E t \in Threads, o \in O : ThreadSpeak(t, o)

\* the transport fails, and websocket_loop starts its next round
TransportStep ==
    \/ ConnectFails
    \/ RecvFails
    \/ Sleep

\* a termination signal and its handler
SignalStep(O) ==
    \/ Signal
    \/ ShutdownAcquire
    \/ \E o \in O : ShutdownPurge(o)
    \/ ShutdownExit

\* Every behaviour: the engine may raise or hang, the transport may fail,
\* a termination signal may arrive.
Next ==
    \/ MainStep(Outcomes, Messages)
    \/ ThreadStep(Outcomes)
    \/ UtteranceCompletes
    \/ TransportStep
    \/ SignalStep(Outcomes)

Spec == Init /\ [][Next]_vars

\* The behaviours in which the engine answers every call, the connection
\* stays up and no termination signal arrives.
NextNominal ==
    \/ MainStep({"ok"}, Messages)
    \/ ThreadStep({"ok"})
    \/ UtteranceCompletes

Nominal == Init /\ [][NextNominal]_vars

\* The connection lifecycle: the transport may fail at any time, the engine
\* may raise or hang and a termination signal may arrive, over a small
\* alphabet of messages. asyncio resumes the coroutine when its sleep is
\* over, so Sleep is taken once it is enabled.
NextLifecycle ==
    \/ MainStep(Outcomes, {mGarbage, mCancel, mSayA})
    \/ ThreadStep(Outcomes)
    \/ UtteranceCompletes
    \/ TransportStep
    \/ SignalStep(Outcomes)

Lifecycle == Init /\ [][NextLifecycle]_vars /\ WF_vars(Sleep)

\* The well-formed requests: Cancel and the Says of Scenario A (English /
\* Male, Rate 300), Scenario B (German / Female) and {"Type":"say"}; the
\* engine answers every call, the connection stays up, no signal arrives.
NextWellFormed ==
    \/ MainStep({"ok"}, {mCancel, mSayA, mSayB, mSayBare})
    \/ ThreadStep({"ok"})
    \/ UtteranceCompletes

WellFormed == Init /\ [][NextWellFormed]_vars

\* The conversions of a Say's fields: the first message is a Say whose Rate,
\* Language and Voice.Name are drawn from the input sets, the messages after
\* it are Cancels; the engine answers every call.
NextConversion ==
    \/ Connect
    \/ nmsgs = 0 /\ \E m \in RateSays \cup VoiceSays : Receive(m)
    \/ nmsgs > 0 /\ Receive(mCancel)
    \/ CancelAcquire
    \/ CancelPurge("ok")
    \/ StartThread
    \/ ThreadStep({"ok"})
    \/ UtteranceCompletes

Conversion == Init /\ [][NextConversion]_vars

(* ---------------------------------------------------------------------- *)
(* Reading the engine's call log                                          *)
(* ---------------------------------------------------------------------- *)
Speaks == {i \in DOMAIN log : log[i].op = "speak"}
Purges == {i \in DOMAIN log : log[i].op = "purge"}

\* the speak() arguments of the k-th message, when it was dispatched as a Say
ReqOf(k) ==
    IF k \in Threads /\ tpc[k] # "none" THEN treq[k]
    ELSE IF k = nmsgs /\ ctx = "say" THEN req
    ELSE NoReq

\* utterances queued in the engine
InFlight == {playing[i] : i \in DOMAIN playing}

(* ---------------------------------------------------------------------- *)
(* C1. At most one utterance: while only Say messages are handled, the     *)
(* engine receives no second speak call unless a purge call reached it     *)
(* after the previous speak call.                                          *)
(* ---------------------------------------------------------------------- *)
C1_PurgeBetweenSpeaks ==
    (\A k \in Purges : log[k].who = "say") =>
        \A i, j \in Speaks : i < j => \E k \in Purges : i < k /\ k < j

(* ---------------------------------------------------------------------- *)
(* C2. A Cancel received after a Say purges that Say's utterance: the      *)
(* purge of the Cancel reaches the engine after the speak call of the      *)
(* earlier Say, and once the Cancel has purged, no utterance of an earlier *)
(* Say is in flight.                                                       *)
(* ---------------------------------------------------------------------- *)
C2_CancelPurgesEarlierSay ==
    \A k \in Purges :
        log[k].who = "cancel" =>
            /\ \A i \in Speaks : log[i].msg < log[k].msg => i < k
            /\ \A t \in InFlight : t > log[k].msg

(* ---------------------------------------------------------------------- *)
(* C3. Speak calls reach the engine in the arrival order of their Say      *)
(* messages, each after the purge of its own Say and of every earlier one. *)
(* ---------------------------------------------------------------------- *)
C3_SpeakInArrivalOrder ==
    \A i, j \in Speaks : i < j => log[i].msg < log[j].msg

(* ---------------------------------------------------------------------- *)
(* C4. A hung engine call in a background thread never blocks the receive  *)
(* loop: the main thread never waits for the lock while a hung thread      *)
(* holds it.                                                               *)
(* ---------------------------------------------------------------------- *)
C4_HungThreadBlocksNobody ==
    ~(/\ mpc = "cs_acquire"
      /\ lock \in Threads
      /\ tpc[lock] = "hung")

(* ---------------------------------------------------------------------- *)
(* C5. On a termination signal the handler never waits for a lock that the *)
(* interrupted main thread itself holds, and no speak call reaches the     *)
(* engine after the handler's final purge.                                 *)
(* ---------------------------------------------------------------------- *)
C5_ShutdownPurgesAndExits ==
    /\ ~(sig = "sd_acquire" /\ lock = ByMain)
    /\ \A k \in Purges : log[k].who = "shutdown" => \A i \in Speaks : i < k

(* ---------------------------------------------------------------------- *)
(* C6. No inbound message ends the connection or the process: whatever     *)
(* the message, the main thread stays in the receive loop of the open      *)
(* connection (it never reaches the except clause of websocket_loop), the  *)
(* process keeps running, and a background thread that has ended, also     *)
(* with an exception, does not hold the engine lock, so the next Say or    *)
(* Cancel can take it.                                                     *)
(* ---------------------------------------------------------------------- *)
C6_NoMessageKills ==
    /\ mpc \in {"connect", "recv", "cs_acquire", "cs_purge", "start"}
    /\ ~Stopped
    /\ \A t \in Threads :
          tpc[t] \in Raised \cup {"none", "acquire", "done"} => lock # t

\* a Say with a non-numeric Rate ended its thread with a TypeError, and the
\* Say received next has spoken
C6_SayAfterBadSaySpoke ==
    /\ nmsgs = 2
    /\ mpc = "recv"
    /\ tpc[1] = "raised_TypeError"
    /\ tpc[2] = "done"
    /\ \E i \in Speaks : log[i].msg = 2

(* ---------------------------------------------------------------------- *)
(* C7. Malformed-input resilience. As claimed: a Say without Payload       *)
(* leaves the engine as it was, so no engine call is made for it and no    *)
(* utterance of it becomes active.                                         *)
(* ---------------------------------------------------------------------- *)
C7_BareSayLeavesEngineAlone ==
    /\ \A i \in DOMAIN log :
          log[i].who \in {"say", "thread"} => ReqOf(log[i].msg) # Request(mSayBare)
    /\ \A t \in InFlight : treq[t] # Request(mSayBare)

\* messages that are not JSON objects, or whose Type is missing, not a
\* string, or neither "say" nor "cancel"
C7_Ignored == {mGarbage, mArray, mEmpty, mTypeNum, mOther}

\* the engine calls of a Say without Payload received as message k
C7_BareCalls(k) ==
    {Call("purge", "say", k, 3, ""),
     Call("volume", "thread", k, 100, ""),
     Call("rate", "thread", k, 5, ""),
     Call("getvoices", "thread", k, 0, ""),
     Call("voice", "thread", k, 0, "Microsoft Catherine - English"),
     Call("speak", "thread", k, 1, "")}

(* ---------------------------------------------------------------------- *)
(* C7, amended. Handling a non-structured string, an empty object or a     *)
(* message with any other or missing Type makes no engine call, starts no  *)
(* thread and changes nothing but the count of received messages; a Say    *)
(* without Payload is handled as a Say of the empty text with the          *)
(* defaults: its engine calls are the purge and then volume 100, rate 5,   *)
(* the English neutral voice and speak("", async).                         *)
(* ---------------------------------------------------------------------- *)
C7_MalformedInputResilience ==
    /\ [](\A i \in DOMAIN log :
            (/\ log[i].who \in {"say", "thread"}
             /\ ReqOf(log[i].msg) = Request(mSayBare))
            => log[i] \in C7_BareCalls(log[i].msg))
    /\ [][\A m \in C7_Ignored :
            Receive(m) =>
                /\ mpc' = "recv"
                /\ UNCHANGED <<ctx, req, lock, tpc, treq, current_speak_thread,
                               engine, installed, playing, log, sig>>]_vars

\* the second message is a Say without Payload: its purge followed the speak
\* call of the first Say, and its own empty utterance is queued
C7_BareSayPurgedAndSpoke ==
    /\ ReqOf(2) = Request(mSayBare)
    /\ 2 \in InFlight
    /\ \E i \in Speaks, k \in Purges :
          /\ log[i].msg = 1
          /\ log[k].msg = 2
          /\ log[k].who = "say"
          /\ i < k

(* ---------------------------------------------------------------------- *)
(* C8. Every Say with a recognized Type, whatever its other fields, makes  *)
(* exactly one speak call: a background thread that has run to its end     *)
(* without an engine failure has made the speak call of its Say.           *)
(* ---------------------------------------------------------------------- *)
C8_EverySaySpeaksOnce ==
    \A t \in Threads :
        tpc[t] \in {"done", "raised_TypeError", "raised_AttributeError"} =>
            Cardinality({i \in Speaks : log[i].msg = t}) = 1

(* ---------------------------------------------------------------------- *)
(* C9. Every error raised by the engine is caught: no background thread    *)
(* ends with the engine's exception unhandled, and the shutdown handler    *)
(* is never left by an exception.                                          *)
(* ---------------------------------------------------------------------- *)
C9_EngineErrorsCaught ==
    /\ \A t \in Threads : tpc[t] # "raised_COMError"
    /\ sig \notin {"aborted", "crashed"}

(* ---------------------------------------------------------------------- *)
(* C10. After every connection error the loop sleeps and then attempts to  *)
(* connect again, unless a termination signal stops the process first;     *)
(* there is no state in which it has given up.                             *)
(* ---------------------------------------------------------------------- *)
C10_Reconnects ==
    (mpc = "sleep") ~> (mpc = "connect" \/ sig \notin {"none", "aborted"})

\* the connection failed after a message had been received
C10_FailedMidStream ==
    /\ mpc = "sleep"
    /\ nmsgs >= 1
    /\ sig = "none"

(* ---------------------------------------------------------------------- *)
(* C11. Messages are handled in arrival order, one at a time: a message is *)
(* read only when the handling of the previous one has returned (the main  *)
(* thread is back in the receive loop, holds no lock and has no request in *)
(* progress); the handling of a Say or a Cancel returns only after its     *)
(* purge call has reached the engine; and the purges of the receive path   *)
(* reach the engine in the arrival order of their messages.                *)
(* ---------------------------------------------------------------------- *)
C11_StrictArrivalOrder ==
    /\ [](\A i, j \in Purges :
            (/\ i < j
             /\ log[i].who \in {"say", "cancel"}
             /\ log[j].who \in {"say", "cancel"}) => log[i].msg < log[j].msg)
    /\ [][nmsgs' # nmsgs =>
            /\ nmsgs' = nmsgs + 1
            /\ mpc = "recv"
            /\ ctx = "none"
            /\ req = NoReq
            /\ lock # ByMain]_vars
    /\ [][(ctx \in {"say", "cancel"} /\ mpc' = "recv") =>
            \E k \in DOMAIN log' : log'[k] = Call("purge", ctx, nmsgs, 3, "")]_vars

\* a Say and then a Cancel were handled: both purges are in the engine's log,
\* in that order, the Say's thread has not taken the lock yet, and the main
\* thread is ready to read the third message
C11_TwoHandledInOrder ==
    /\ nmsgs = 2
    /\ mpc = "recv"
    /\ tpc[1] = "acquire"
    /\ log = <<Call("purge", "say", 1, 3, ""), Call("purge", "cancel", 2, 3, "")>>

(* ---------------------------------------------------------------------- *)
(* C12. Rate clamp: for every integer Rate the conversion yields a value   *)
(* (the thread of the Say does not end in an arithmetic error), the rate   *)
(* the engine receives is within [-10, 10] and is monotonically            *)
(* non-decreasing in the Rate; Rate 200 gives 0, 220 gives 1, 0 gives -10  *)
(* and 10000 gives 10.                                                     *)
(* ---------------------------------------------------------------------- *)
C12_RateClamp ==
    /\ \A t \in Threads :
          treq[t].rate.t \in {"num", "big"} => tpc[t] # "raised_OverflowError"
    /\ \A i \in DOMAIN log :
          log[i].op = "rate" =>
              LET wpm == treq[log[i].msg].rate.n
                  sapi == log[i].n
              IN  /\ sapi \in -10..10
                  /\ engine.rate \in -10..10
                  /\ \A v \in RateInputs :
                        /\ v <= wpm => rate_to_sapi(v) <= sapi
                        /\ v >= wpm => rate_to_sapi(v) >= sapi
                  /\ wpm = 200 => sapi = 0
                  /\ wpm = 220 => sapi = 1
                  /\ wpm = 0 => sapi = -10
                  /\ wpm = 10000 => sapi = 10

(* ---------------------------------------------------------------------- *)
(* C13. Voice resolution is total: for every Language string and every     *)
(* Voice.Name string the Say's thread passes select_voice without an       *)
(* error, the identity picked is one of the six, German for the spellings  *)
(* of a language beginning with "german" and English for all others,       *)
(* Male / Female for the spellings of "male" / "female" and Neutral for    *)
(* anything else; the engine is given exactly that voice when it is        *)
(* installed, and no voice otherwise.                                      *)
(* ---------------------------------------------------------------------- *)
C13_German == {"German", "german", "GERMAN", "Germany"}
C13_Male == {"Male", "male", "MALE"}
C13_Female == {"Female", "female", "FEMALE"}

\* the identity the rule names for a language and a gender
C13_Expected(l, g) ==
    IF l \in C13_German
    THEN IF g \in C13_Male THEN "DE_MALE"
         ELSE IF g \in C13_Female THEN "DE_FEMALE"
         ELSE "DE_NEUTRAL"
    ELSE IF g \in C13_Male THEN "EN_MALE"
         ELSE IF g \in C13_Female THEN "EN_FEMALE"
         ELSE "EN_NEUTRAL"

\* the description under which the engine lists an identity
C13_Description(c) ==
    CASE c = "EN_NEUTRAL" -> "Microsoft Catherine - English"
      [] c = "EN_FEMALE" -> "Microsoft Susan - English"
      [] c = "EN_MALE" -> "Microsoft Richard - English"
      [] c = "DE_NEUTRAL" -> "Microsoft Hedda Desktop - German"
      [] c = "DE_FEMALE" -> "Microsoft Katja - German"
      [] c = "DE_MALE" -> "Microsoft Karsten - German"

C13_VoiceResolutionTotal ==
    \A t \in Threads :
        (treq[t].language.t = "str" /\ treq[t].gender.t = "str") =>
            LET l == treq[t].language.s
                g == treq[t].gender.s
                d == C13_Description(C13_Expected(l, g))
                calls == {i \in DOMAIN log : log[i].op = "voice" /\ log[i].msg = t}
                chosen == Chosen(Chars(l), Chars(g))
            IN  /\ tpc[t] # "raised_AttributeError"
                /\ chosen = C13_Expected(l, g)
                /\ chosen \in DOMAIN VOICE_MAP
                /\ tpc[t] \in {"speak", "done"} =>
                      IF \E k \in DOMAIN installed : installed[k] = d
                      THEN /\ Cardinality(calls) = 1
                           /\ \A i \in calls : log[i].s = d
                      ELSE calls = {}

\* the Say for "GERMAN" / "FEMALE" has spoken with the German female voice
C13_UpperCaseGermanFemale ==
    /\ tpc[1] = "done"
    /\ treq[1].language = Str("GERMAN")
    /\ treq[1].gender = Str("FEMALE")
    /\ engine.voice = "Microsoft Katja - German"

(* ---------------------------------------------------------------------- *)
(* C14. Cancel idempotence: the engine call of a Cancel is one purge; it   *)
(* leaves the engine's volume, rate and voice and the threads as they      *)
(* were and nothing in flight; handled while the session is idle (nothing  *)
(* in flight, no thread on its way to a speak call) it leaves the session  *)
(* idle; and a Cancel whose purge directly follows the purge of another    *)
(* Cancel changes nothing but the log of calls.                            *)
(* ---------------------------------------------------------------------- *)
C14_Idle ==
    /\ playing = <<>>
    /\ \A t \in Threads : tpc[t] \in Raised \cup {"none", "done"}

\* the step in which cancel_speech, called for a Cancel, returns
C14_CancelReturns ==
    /\ ctx = "cancel"
    /\ mpc = "cs_purge"
    /\ mpc' = "recv"

C14_CancelIdempotent ==
    [][C14_CancelReturns =>
        /\ log' = Append(log, Call("purge", "cancel", nmsgs, 3, ""))
        /\ playing' = <<>>
        /\ UNCHANGED <<engine, tpc, treq, current_speak_thread, installed>>
        /\ C14_Idle => C14_Idle'
        /\ (log # <<>> /\ log[Len(log)].op = "purge" /\ log[Len(log)].who = "cancel") =>
              UNCHANGED <<engine, playing, tpc, treq, current_speak_thread>>]_vars

\* two Cancels in a row were handled while the session was idle: the engine
\* received two purges, the session is idle and the engine's parameters are
\* the initial ones
C14_TwoCancelsWhileIdle ==
    /\ nmsgs = 2
    /\ mpc = "recv"
    /\ C14_Idle
    /\ log = <<Call("purge", "cancel", 1, 3, ""), Call("purge", "cancel", 2, 3, "")>>
    /\ engine = [volume |-> 100, rate |-> 0, voice |-> installed[1]]

(* ---------------------------------------------------------------------- *)
(* C15. Every engine access is made by the holder of voice_lock: a call    *)
(* reaches the engine, or an engine parameter changes, only in a step of   *)
(* the thread, receive path or handler that holds the lock; and the calls  *)
(* of one Speak are one unit: between the volume set and the speak call of *)
(* a Speak the engine receives only calls of that same Speak.              *)
(* ---------------------------------------------------------------------- *)
C15_Holder(c) ==
    IF c.who = "thread" THEN c.msg
    ELSE IF c.who = "shutdown" THEN ByShutdown
    ELSE ByMain

C15_EngineUnderLock ==
    /\ [][log' # log =>
            /\ Len(log') > Len(log)
            /\ \A i \in (Len(log) + 1)..Len(log') : lock = C15_Holder(log'[i])]_vars
    /\ [][engine' # engine => lock \in Threads /\ tpc[lock] # tpc'[lock]]_vars
    /\ [](\A i, j \in DOMAIN log :
            (/\ i < j
             /\ log[i].op = "volume"
             /\ log[j].op = "speak"
             /\ log[i].msg = log[j].msg) =>
                \A k \in i..j : log[k].who = "thread" /\ log[k].msg = log[i].msg)

\* a Cancel waits for the lock while the thread of the Say before it is
\* between its voice set and its speak call
C15_CancelWaitsForSpeak ==
    /\ mpc = "cs_acquire"
    /\ ctx = "cancel"
    /\ lock = 1
    /\ tpc[1] = "speak"
    /\ sig = "none"

(* ---------------------------------------------------------------------- *)
(* C16. Each Say issues its own purge, also when nothing is playing,       *)
(* before any engine call of its thread; the thread's calls reach the      *)
(* engine in the order volume, rate, voice (enumeration, then the set when *)
(* the voice is installed), speak(text, async); the engine has never       *)
(* received more speak calls than purge calls; and the calls of the Say of *)
(* Scenario A are volume 100, rate 5, the English male voice and           *)
(* speak("Hello", async).                                                  *)
(* ---------------------------------------------------------------------- *)
\* the engine calls of the thread of message t, in the order received
C16_CallsOf(t) == SelectSeq(log, LAMBDA c : c.who = "thread" /\ c.msg = t)

C16_IsPrefix(s, full) ==
    /\ Len(s) <= Len(full)
    /\ \A i \in 1..Len(s) : s[i] = full[i]

C16_PurgeThenFixedOrder ==
    /\ Cardinality(Speaks) <= Cardinality(Purges)
    /\ \A t \in Threads :
          LET calls == C16_CallsOf(t)
              ops == [i \in 1..Len(calls) |-> calls[i].op]
              own == Call("purge", "say", t, 3, "")
          IN  /\ tpc[t] # "none" => \E k \in DOMAIN log : log[k] = own
              /\ \A i \in DOMAIN log :
                    (log[i].who = "thread" /\ log[i].msg = t) =>
                        \E k \in 1..(i - 1) : log[k] = own
              /\ \/ C16_IsPrefix(ops, <<"volume", "rate", "getvoices", "voice", "speak">>)
                 \/ C16_IsPrefix(ops, <<"volume", "rate", "getvoices", "speak">>)
              /\ tpc[t] = "done" => ops # <<>> /\ ops[Len(ops)] = "speak"
              /\ (tpc[t] = "done" /\ treq[t] = Request(mSayA)) =>
                    calls = <<Call("volume", "thread", t, 100, ""),
                              Call("rate", "thread", t, 5, ""),
                              Call("getvoices", "thread", t, 0, ""),
                              Call("voice", "thread", t, 0, "Microsoft Richard - English"),
                              Call("speak", "thread", t, 1, "Hello")>>

\* Scenario A was received first, with nothing playing, and has spoken: the
\* engine's log is the purge and the five calls of its thread
C16_ScenarioASpoken ==
    /\ tpc[1] = "done"
    /\ treq[1] = Request(mSayA)
    /\ Len(log) = 6
    /\ log[1] = Call("purge", "say", 1, 3, "")
    /\ log[6] = Call("speak", "thread", 1, 1, "Hello")
    /\ engine = [volume |-> 100, rate |-> 5, voice |-> "Microsoft Richard - English"]

(* ---------------------------------------------------------------------- *)
(* C17. At most one synthesis task is active: at most one background       *)
(* thread has been started and has not yet finished (or abandoned) its     *)
(* engine speak call, and it is the one current_speak_thread refers to.    *)
(* ---------------------------------------------------------------------- *)
C17_Active ==
    {t \in Threads : tpc[t] \in {"acquire", "volume", "rate", "voice", "speak", "hung"}}

C17_AtMostOneActive ==
    /\ Cardinality(C17_Active) <= 1
    /\ \A t \in C17_Active : t = current_speak_thread

(* ---------------------------------------------------------------------- *)
(* C18. The rate the engine receives equals the reference formula          *)
(* clamp(round((wpm - 200) / 20), -10, 10) for every integer Rate, also    *)
(* when wpm - 200 is not a multiple of 20 and when wpm is below 200.       *)
(* ---------------------------------------------------------------------- *)
\* round(diff / 20): the nearest integer, a tie going to the even one
C18_Round(diff) ==
    LET q == diff \div 20
        r == diff % 20
    IN  IF r < 10 THEN q
        ELSE IF r > 10 THEN q + 1
        ELSE IF q % 2 = 0 THEN q ELSE q + 1

C18_Reference(wpm) == Max(-10, Min(10, C18_Round(wpm - 200)))

C18_RateMatchesReference ==
    \A i \in DOMAIN log :
        log[i].op = "rate" =>
            log[i].n = C18_Reference(treq[log[i].msg].rate.n)

(* ---------------------------------------------------------------------- *)
(* C19. Voice not found: when no enumerated voice's description contains   *)
(* the target name, select_voice raises nothing and reports "Default       *)
(* system voice"; its step leaves the engine's volume, rate and voice as   *)
(* they were (the only call is the enumeration) and the thread goes on to  *)
(* its speak call; the engine's voice is always the one the last           *)
(* successful selection set (the installation's first voice before any),   *)
(* so such a Say is spoken with the voice of an earlier request.           *)
(* ---------------------------------------------------------------------- *)
\* the Say of thread t names a voice that no enumerated description contains
C19_NotFound(t) ==
    /\ treq[t].language.t = "str"
    /\ treq[t].gender.t = "str"
    /\ \A k \in DOMAIN installed :
          installed[k] # C13_Description(Chosen(Chars(treq[t].language.s), Chars(treq[t].gender.s)))

\* the voice of the last voice set the engine received
C19_LastVoiceSet ==
    LET sets == {i \in DOMAIN log : log[i].op = "voice"}
    IN  IF sets = {} THEN installed[1]
        ELSE log[CHOOSE i \in sets : \A j \in sets : j <= i].s

C19_FallbackKeepsVoice ==
    /\ [](engine.voice = C19_LastVoiceSet)
    /\ [](\A t \in Threads :
            (tpc[t] \in {"speak", "done"} /\ C19_NotFound(t)) =>
                /\ \A i \in DOMAIN log : log[i].op = "voice" => log[i].msg # t
                /\ tpc[t] = "done" => \E i \in Speaks : log[i].msg = t)
    /\ [][\A t \in Threads :
            (tpc[t] = "voice" /\ tpc'[t] # "voice" /\ C19_NotFound(t)) =>
                /\ select_voice(treq[t].language.s, treq[t].gender.s)[2] = "Default system voice"
                /\ tpc'[t] = "speak"
                /\ engine' = engine
                /\ lock' = t
                /\ log' = Append(log, Call("getvoices", "thread", t, 0, ""))]_vars

\* only the English voices are installed; Scenario A set the English male
\* voice, and the German / Female Say after it has spoken with that voice
C19_GermanSpokenWithEarlierVoice ==
    /\ installed = EnglishOnly
    /\ tpc[1] = "done" /\ treq[1] = Request(mSayA)
    /\ tpc[2] = "done" /\ treq[2] = Request(mSayB)
    /\ engine.voice = "Microsoft Richard - English"
    /\ log[Len(log)] = Call("speak", "thread", 2, 1, "Hallo")

(* ---------------------------------------------------------------------- *)
(* C20. The failure of a Say is not all-or-nothing. A Say whose Voice is   *)
(* not an object is rejected before dispatch: no engine call, no thread,   *)
(* and what is playing keeps playing. A Say whose thread fails on a        *)
(* non-numeric Rate or a non-string Language has by then purged, set the   *)
(* volume (and, for the Language, the rate), makes no speak call, and      *)
(* releases the lock as it ends, so no ended thread holds the lock.        *)
(* ---------------------------------------------------------------------- *)
\* the operations of the engine calls made by the thread of message t
C20_OpsOf(t) == {log[i].op : i \in {k \in DOMAIN log : log[k].who = "thread" /\ log[k].msg = t}}

C20_PartialFailure ==
    /\ [][Receive(mSayVoiceStr) =>
            /\ mpc' = "recv"
            /\ UNCHANGED <<ctx, req, lock, tpc, treq, current_speak_thread,
                           engine, installed, playing, log, sig>>]_vars
    /\ [](\A t \in Threads :
            /\ tpc[t] \in Raised =>
                  /\ lock # t
                  /\ \E k \in DOMAIN log : log[k] = Call("purge", "say", t, 3, "")
                  /\ "speak" \notin C20_OpsOf(t)
            /\ tpc[t] = "raised_TypeError" =>
                  /\ treq[t].rate.t # "num"
                  /\ C20_OpsOf(t) = {"volume"}
            /\ tpc[t] = "raised_AttributeError" =>
                  /\ treq[t].language.t # "str" \/ treq[t].gender.t # "str"
                  /\ C20_OpsOf(t) = {"volume", "rate"})
    /\ [][\A t \in Threads :
            (tpc[t] \notin Raised /\ tpc'[t] \in Raised) =>
                lock = t /\ lock' = Free /\ playing' = playing]_vars

\* the Say with Language 5 arrived while the utterance of the Say before it
\* was playing: it purged that utterance and set the rate, and its thread
\* ended with AttributeError before the speak call, the lock free again
C20_FailedAfterPurge ==
    /\ tpc[1] = "done"
    /\ tpc[2] = "raised_AttributeError"
    /\ treq[2] = Request(mSayLangNum)
    /\ playing = <<>>
    /\ lock = Free
    /\ Len(log) >= 4
    /\ log[Len(log)] = Call("rate", "thread", 2, 5, "")
    /\ log[Len(log) - 1] = Call("volume", "thread", 2, 100, "")
    /\ log[Len(log) - 2] = Call("purge", "say", 2, 3, "")
    /\ log[Len(log) - 3].op = "speak"

====
